---- MODULE Spec2Model ----
(***************************************************************************)
(* The instance broker of AIAgent/launch_servers.py: a pool queue of       *)
(* ServerInstanceInfo descriptors (SERVER_INSTANCES), the list of spawned  *)
(* pids (PROCS), the results buffer (RESULTS) and the aiohttp handlers     *)
(* that act on them.  All handlers run on one event loop: a handler is     *)
(* atomic between two `await`s that really suspend, and a blocking call    *)
(* (proc.stdout.read(), time.sleep) holds the loop for every handler.      *)
(*                                                                         *)
(*   Spec         the broker as main() runs it                             *)
(*   SpecResults  the broker serving the two results endpoints, with       *)
(*                payloads that need JSON escaping                         *)
(*   SpecLaunch   run_server_instance(should_start_server=True) called     *)
(*                directly by concurrent tasks (no handler reaches it)     *)
(*   SpecKill     the handlers and the shutdown loop on a registry that    *)
(*                already holds workers (no run of main() fills PROCS)     *)
(***************************************************************************)
EXTENDS Integers, Sequences, FiniteSets, TLC

(* ------------------------------ bounds -------------------------------- *)
\* GeneralConfig.SERVER_COUNT, the `size` given to server_manager
PoolSize == 2
\* requests the clients send in one run (calls of run_server_instance in SpecLaunch)
MaxRequests == 3
\* concurrent in-flight requests (one task per request)
NumTasks == 2
\* pids of processes that exist beside the broker and that a client may name
MaxForeignPid == 1
\* characters in one result payload (SpecResults)
MaxPayloadLen == 1
\* FeatureConfig.ON_GAME_SERVER_RESTART.wait_for_reset_retries
wait_for_reset_retries == 2
\* ports in the scanned range [port, max_port] (35000..36000 in the source)
NumPorts == 2

Tasks == 1..NumTasks
NoTask == NumTasks + 1

(* ------------------------- descriptors -------------------------------- *)
\* connection.broker_conn.classes.Undefined: the "no process" sentinel
Undefined == 0
\* Python's None, the port of a StaleServerInstanceInfo
None == 0

ServerInstanceInfo(port, ws_url, pid) == [port |-> port, ws_url |-> ws_url, pid |-> pid]

StaleServerInstanceInfo(port, ws_url, pid) == ServerInstanceInfo(port, ws_url, pid)

RunningServerInstanceInfo(port, ws_url, pid) == ServerInstanceInfo(port, ws_url, pid)

\* BrokerConfig.BROKER_PORT stands where the host would: the f-string of line 108
get_socket_url(port) == <<"ws://", "BROKER_PORT", ":", port, "/gameServer">>

EmptyWSUrl == <<"Empty WSUrl">>

NoInfo == ServerInstanceInfo(None, <<>>, Undefined)

Ports == 1..NumPorts
ForeignPids == 1..MaxForeignPid

\* what a client may post to post_ws: any well-formed descriptor
ClientInfos ==
    { ServerInstanceInfo(p, get_socket_url(p), q) :
          p \in {1, NumPorts}, q \in ForeignPids \cup {Undefined} }
        \cup { StaleServerInstanceInfo(None, EmptyWSUrl, Undefined) }

(* --------------------------- JSON text -------------------------------- *)
QUOTE == "\""
BSLASH == "\\"
Chars == {"a", QUOTE, BSLASH}

RECURSIVE SeqsUpTo(_, _)
SeqsUpTo(S, n) ==
    IF n = 0 THEN {<<>>}
    ELSE LET shorter == SeqsUpTo(S, n - 1)
         IN  shorter \cup { Append(s, c) : s \in shorter, c \in S }

\* request bodies that are valid UTF-8, as the decoded text
Payloads == SeqsUpTo(Chars, MaxPayloadLen)
\* a body that data.decode("utf-8") rejects
InvalidUtf8 == <<"\\xff">>

decode_ok(data) == data # InvalidUtf8

RECURSIVE json_escape(_)
json_escape(s) ==
    IF s = <<>> THEN <<>>
    ELSE LET c == Head(s)
         IN  (IF c = QUOTE \/ c = BSLASH THEN <<BSLASH, c>> ELSE <<c>>) \o json_escape(Tail(s))

json_string(s) == <<QUOTE>> \o json_escape(s) \o <<QUOTE>>

RECURSIVE json_items(_)
json_items(l) ==
    IF l = <<>> THEN <<>>
    ELSE IF Len(l) = 1 THEN json_string(l[1])
    ELSE json_string(l[1]) \o <<",", " ">> \o json_items(Tail(l))

\* json.dumps of a list of str
json_dumps(l) == <<"[">> \o json_items(l) \o <<"]">>

\* the client's json.loads of such a text: a scanner over the array's characters
RECURSIVE json_scan(_, _, _, _)
json_scan(txt, inStr, cur, acc) ==
    IF txt = <<>> THEN acc
    ELSE LET c == Head(txt)
         IN  IF ~inStr
             THEN json_scan(Tail(txt), c = QUOTE, <<>>, acc)
             ELSE IF c = BSLASH
                  THEN json_scan(Tail(Tail(txt)), TRUE, Append(cur, txt[2]), acc)
                  ELSE IF c = QUOTE
                       THEN json_scan(Tail(txt), FALSE, <<>>, Append(acc, cur))
                       ELSE json_scan(Tail(txt), TRUE, Append(cur, c), acc)

json_loads(txt) == json_scan(txt, FALSE, <<>>, <<>>)

(* ----------------------------- state ---------------------------------- *)
VARIABLES
    phase,                    \* "init" | "serving" | "failed" | "stopped" | "harness"
    enabled,                  \* FeatureConfig.ON_GAME_SERVER_RESTART.enabled
    DEBUG,                    \* args.debug or False
    SERVER_INSTANCES,         \* Queue[ServerInstanceInfo], head first
    PROCS,                    \* list of pids
    RESULTS,                  \* list of decoded payloads
    avoid_same_free_port_lock,\* the task holding the asyncio.Lock, or NoTask
    task,                     \* per in-flight request: the handler's position and locals
    busy,                     \* the task whose blocking call holds the event loop, or NoTask
    nreq,                     \* requests received so far
    last,                     \* the handler that finished last: its request and response
    os,                       \* the operating system: live pids, listening ports, children
    hist                      \* history: signals sent, leases, payloads submitted and delivered

vars == <<phase, enabled, DEBUG, SERVER_INSTANCES, PROCS, RESULTS,
          avoid_same_free_port_lock, task, busy, nreq, last, os, hist>>

NoResp == [kind |-> "none", info |-> NoInfo, text |-> <<>>]
Raise(exc) == [kind |-> exc, info |-> NoInfo, text |-> <<>>]
json_response(info) == [kind |-> "ok", info |-> info, text |-> <<>>]
Response(text) == [kind |-> "ok", info |-> NoInfo, text |-> text]
HTTPOk == [kind |-> "ok", info |-> NoInfo, text |-> <<>>]

\* a str and a bytes value: Python's `in` between the two raises TypeError
Str(marker) == [type |-> "str", marker |-> marker]
Bytes(marker) == [type |-> "bytes", marker |-> marker]

\* a handler's position and locals while its request is in flight
IdleTask ==
    [op |-> "none", pc |-> "idle", info |-> NoInfo, data |-> <<>>,
     proc |-> Undefined, port |-> None, proc_out |-> Bytes(FALSE), rejected |-> {},
     retries |-> 0, polls |-> <<>>]

Serving == phase = "serving" /\ busy = NoTask
\* a new request is served by the first task that is idle (tasks are interchangeable)
Free(t) ==
    /\ task[t].pc = "idle" /\ nreq < MaxRequests
    /\ \A u \in Tasks : u < t => task[u].pc # "idle"

Begin(op, pc) == [IdleTask EXCEPT !.op = op, !.pc = pc]

\* what a finished handler leaves: the request (op, info, data), the response, and the
\* structure it acted on (the pool for get_ws/post_ws, the buffer for recv_res) as
\* it was before (seen) and after (left) the handler
Finished(r, resp, seen, left) ==
    [op |-> r.op, info |-> r.info, data |-> r.data, proc |-> r.proc, port |-> r.port,
     proc_out |-> r.proc_out, rejected |-> r.rejected, polls |-> r.polls,
     resp |-> resp, seen |-> seen, left |-> left]
NoLast == Finished(IdleTask, NoResp, <<>>, <<>>)

NoChildren == <<>>
InitOs == [alive |-> ForeignPids, taken |-> {}, children |-> NoChildren]
InitHist ==
    [signalled |-> {}, leased |-> {}, issued |-> <<>>,
     pending |-> <<>>, appended |-> <<>>, delivered |-> <<>>]

(* ------------------------- results buffer ----------------------------- *)
\* (mutant) the payload is put in front of the buffer
AppendResult_front(results, decoded) == <<decoded>> \o results

\* RESULTS.append(decoded), line 93
AppendResult(results, decoded) == Append(results, decoded)

\* (mutant) the buffer is not cleared after the snapshot
ClearedResults_kept(results) == results

\* RESULTS = [], line 103
ClearedResults(results) == <<>>

\* POST post_res arrives; the handler suspends in `await request.read()`
append_results_read(t, data) ==
    /\ Serving /\ Free(t)
    /\ task' = [task EXCEPT ![t] = [Begin("post_res", "read") EXCEPT !.data = data]]
    /\ nreq' = nreq + 1
    /\ UNCHANGED <<phase, enabled, DEBUG, SERVER_INSTANCES, PROCS, RESULTS,
                   avoid_same_free_port_lock, busy, last, os, hist>>

\* lines 92-94, run without suspension once the body is read
append_results(t) ==
    /\ Serving /\ task[t].op = "post_res" /\ task[t].pc = "read"
    /\ task' = [task EXCEPT ![t] = IdleTask]
    /\ IF decode_ok(task[t].data)
       THEN /\ RESULTS' = AppendResult(RESULTS, task[t].data)
            /\ last' = Finished(task[t], HTTPOk, RESULTS, RESULTS')
            /\ hist' = [hist EXCEPT !.pending = Append(@, task[t].data),
                                    !.appended = Append(@, task[t].data)]
       ELSE /\ last' = Finished(task[t], Raise("UnicodeDecodeError"), RESULTS, RESULTS)
            /\ UNCHANGED <<RESULTS, hist>>
    /\ UNCHANGED <<phase, enabled, DEBUG, SERVER_INSTANCES, PROCS,
                   avoid_same_free_port_lock, busy, nreq, os>>

\* GET recv_res: lines 98-104, no `await` in the handler
send_and_clear_results(t) ==
    /\ Serving /\ Free(t)
    /\ nreq' = nreq + 1
    /\ IF RESULTS = <<>>
       THEN /\ last' = Finished(Begin("get_res", "run"), Raise("RuntimeError"),
                                hist.pending, RESULTS)
            /\ UNCHANGED <<RESULTS, hist>>
       ELSE LET rst == json_dumps(RESULTS)
            IN  /\ RESULTS' = ClearedResults(RESULTS)
                /\ last' = Finished(Begin("get_res", "run"), Response(rst),
                                    hist.pending, RESULTS')
                /\ hist' = [hist EXCEPT !.pending = <<>>,
                                        !.delivered = @ \o json_loads(rst)]
    /\ UNCHANGED <<phase, enabled, DEBUG, SERVER_INSTANCES, PROCS,
                   avoid_same_free_port_lock, task, busy, os>>

(* --------------------------- processes -------------------------------- *)
\* the pid of the i-th child the broker spawned
ChildPid(i) == MaxForeignPid + i
Children == DOMAIN os.children
ChildOf(pid) == pid - MaxForeignPid
IsChild(pid) == ChildOf(pid) \in Children

\* a process the kernel still knows: running, or a zombie child not yet waited for
Exists(pid) == pid \in os.alive \/ (IsChild(pid) /\ os.children[ChildOf(pid)].st # "reaped")

\* psutil status: a child that exited is a zombie until it is waited for
Dead(pid) == IsChild(pid) /\ os.children[ChildOf(pid)].st = "exited"

\* os.kill(pid, signal.SIGKILL), lines 168 and 188: the exception it raises, or "sent"
os_kill(pid) ==
    IF pid = Undefined THEN "TypeError"
    ELSE IF ~Exists(pid) THEN "ProcessLookupError"
    ELSE "sent"

\* list.remove(x): the list without the first x
RECURSIVE ListRemove(_, _)
ListRemove(l, x) ==
    IF l = <<>> THEN <<>>
    ELSE IF Head(l) = x THEN Tail(l)
    ELSE <<Head(l)>> \o ListRemove(Tail(l), x)

InList(l, x) == \E i \in DOMAIN l : l[i] = x

\* a foreign process ends by itself or by a signal it was sent
process_exits(p) ==
    /\ phase \in {"serving", "harness"}
    /\ p \in os.alive
    /\ os' = [os EXCEPT !.alive = @ \ {p}]
    /\ UNCHANGED <<phase, enabled, DEBUG, SERVER_INSTANCES, PROCS, RESULTS,
                   avoid_same_free_port_lock, task, busy, nreq, last, hist>>

(* ----------------------------- the pool ------------------------------- *)
\* (mutant) an empty queue hands out a placeholder instead of raising Empty
QueueGet_placeholder(q) ==
    IF q = <<>> THEN [exc |-> "none", item |-> NoInfo, rest |-> q]
    ELSE [exc |-> "none", item |-> Head(q), rest |-> Tail(q)]

\* Queue.get(block=False), line 56: Empty on an empty queue, else the head
QueueGet(q) ==
    IF q = <<>> THEN [exc |-> "Empty", item |-> NoInfo, rest |-> q]
    ELSE [exc |-> "none", item |-> Head(q), rest |-> Tail(q)]

\* (mutant) the item is dropped
QueuePut_discard(q, item) == q

\* (mutant) the item is put at the head of the queue
QueuePut_front(q, item) == <<item>> \o q

\* Queue.put(item), lines 83 and 199
QueuePut(q, item) == Append(q, item)

\* the keyword-only parameters of run_server_instance, line 111
run_server_instance_params == {"should_start_server"}
\* the keywords dequeue_instance passes, lines 58-61
dequeue_instance_kwargs == {"port", "start_server"}
\* the keywords run_servers.run passes, line 159
run_servers_kwargs == {"should_start_server"}
\* Python binds a call's keywords to the parameters, or raises TypeError
CallBinds(params, kwargs) == kwargs = params

\* GET get_ws: lines 54-66.  Nothing suspends before the call of line 58.
dequeue_instance(t) ==
    /\ Serving /\ Free(t)
    /\ nreq' = nreq + 1
    /\ LET got == QueueGet(SERVER_INSTANCES)
           server_info == got.item
           r == [Begin("get_ws", "run") EXCEPT !.info = server_info]
           exc == IF got.exc # "none" THEN got.exc
                  ELSE IF server_info.pid # Undefined THEN "AssertionError"
                  ELSE IF ~CallBinds(run_server_instance_params, dequeue_instance_kwargs)
                       THEN "TypeError"
                  ELSE "none"
       IN  /\ SERVER_INSTANCES' = got.rest
           /\ IF exc # "none"
              THEN /\ last' = Finished(r, Raise(exc), SERVER_INSTANCES, SERVER_INSTANCES')
                   /\ UNCHANGED task
              ELSE \* the body of run_server_instance follows (run_server_instance_call)
                   /\ task' = [task EXCEPT ![t] = [r EXCEPT !.pc = "call"]]
                   /\ UNCHANGED last
    /\ UNCHANGED <<phase, enabled, DEBUG, PROCS, RESULTS,
                   avoid_same_free_port_lock, busy, os, hist>>

\* POST post_ws arrives; the handler suspends in `await request.read()`, line 71
enqueue_instance_read(t, info) ==
    /\ Serving /\ Free(t)
    /\ task' = [task EXCEPT ![t] = [Begin("post_ws", "read") EXCEPT !.info = info]]
    /\ nreq' = nreq + 1
    /\ UNCHANGED <<phase, enabled, DEBUG, SERVER_INSTANCES, PROCS, RESULTS,
                   avoid_same_free_port_lock, busy, last, os, hist>>

\* lines 72-85 with the entry of kill_server (lines 168-172), run without suspension
enqueue_instance(t) ==
    /\ Serving /\ task[t].op = "post_ws" /\ task[t].pc = "read"
    /\ LET returned_instance_info == task[t].info
           pid == returned_instance_info.pid
           r == task[t]
       IN  IF ~enabled
           THEN /\ SERVER_INSTANCES' = QueuePut(SERVER_INSTANCES, returned_instance_info)
                /\ task' = [task EXCEPT ![t] = IdleTask]
                /\ last' = Finished(r, HTTPOk, SERVER_INSTANCES, SERVER_INSTANCES')
                /\ hist' = [hist EXCEPT !.leased = @ \ {returned_instance_info}]
                /\ UNCHANGED <<PROCS, busy>>
           ELSE IF os_kill(pid) # "sent"
           THEN /\ task' = [task EXCEPT ![t] = IdleTask]
                /\ last' = Finished(r, Raise(os_kill(pid)), SERVER_INSTANCES, SERVER_INSTANCES)
                /\ UNCHANGED <<SERVER_INSTANCES, PROCS, busy, hist>>
           ELSE IF ~InList(PROCS, pid)
           THEN /\ task' = [task EXCEPT ![t] = IdleTask]
                /\ last' = Finished(r, Raise("ValueError"), SERVER_INSTANCES, SERVER_INSTANCES)
                /\ hist' = [hist EXCEPT !.signalled = @ \cup {pid}]
                /\ UNCHANGED <<SERVER_INSTANCES, PROCS, busy>>
           ELSE \* the polling loop of kill_server follows (kill_server_poll)
                /\ PROCS' = ListRemove(PROCS, pid)
                /\ task' = [task EXCEPT ![t] =
                        [r EXCEPT !.pc = "kill_poll", !.retries = wait_for_reset_retries]]
                /\ busy' = t
                /\ hist' = [hist EXCEPT !.signalled = @ \cup {pid}]
                /\ UNCHANGED <<SERVER_INSTANCES, last>>
    /\ UNCHANGED <<phase, enabled, DEBUG, RESULTS, avoid_same_free_port_lock, nreq, os>>

\* (mutant) the replacement descriptor is enqueued at the first test, whatever the
\* status of the worker
kill_server_poll_unconfirmed(t) ==
    /\ busy = t /\ task[t].pc = "kill_poll"
    /\ busy' = NoTask
    /\ SERVER_INSTANCES' =
           QueuePut(SERVER_INSTANCES,
                    ServerInstanceInfo(task[t].info.port, task[t].info.ws_url, Undefined))
    /\ task' = [task EXCEPT ![t] = IdleTask]
    /\ last' = Finished(task[t], HTTPOk, SERVER_INSTANCES, SERVER_INSTANCES')
    /\ hist' = [hist EXCEPT !.leased = @ \ {task[t].info}]
    /\ UNCHANGED <<phase, enabled, DEBUG, PROCS, RESULTS, avoid_same_free_port_lock,
                   nreq, os>>

\* (mutant) the loop sleeps and tests again without counting the retry down
kill_server_poll_uncounted(t) ==
    /\ busy = t /\ task[t].pc = "kill_poll"
    /\ task' = [task EXCEPT ![t].polls = Append(@, Dead(task[t].info.pid))]
    /\ UNCHANGED <<phase, enabled, DEBUG, SERVER_INSTANCES, PROCS, RESULTS,
                   avoid_same_free_port_lock, busy, nreq, last, os, hist>>

\* the polling loop of kill_server, lines 174-184, one test of the loop per step
\* (time.sleep holds the event loop between two tests), and on its return the rest
\* of enqueue_instance, lines 79-85.  polls records what each status test observed.
kill_server_poll(t) ==
    /\ busy = t /\ task[t].pc = "kill_poll"
    /\ LET r == task[t]
           polled == [r EXCEPT !.polls = Append(@, Dead(r.info.pid))]
           fresh == ServerInstanceInfo(r.info.port, r.info.ws_url, Undefined)
       IN  IF r.retries = 0
           THEN /\ busy' = NoTask
                /\ task' = [task EXCEPT ![t] = IdleTask]
                /\ last' = Finished(r, Raise("RuntimeError"), SERVER_INSTANCES, SERVER_INSTANCES)
                /\ UNCHANGED <<SERVER_INSTANCES, hist>>
           ELSE IF Dead(r.info.pid)
           THEN /\ busy' = NoTask
                /\ SERVER_INSTANCES' = QueuePut(SERVER_INSTANCES, fresh)
                /\ task' = [task EXCEPT ![t] = IdleTask]
                /\ last' = Finished(polled, HTTPOk, SERVER_INSTANCES, SERVER_INSTANCES')
                /\ hist' = [hist EXCEPT !.leased = @ \ {r.info}]
           ELSE /\ task' = [task EXCEPT ![t] = [polled EXCEPT !.retries = @ - 1]]
                /\ UNCHANGED <<SERVER_INSTANCES, busy, last, hist>>
    /\ UNCHANGED <<phase, enabled, DEBUG, PROCS, RESULTS, avoid_same_free_port_lock,
                   nreq, os>>

(* ------------------------------ launch ------------------------------- *)
ADDRES_IN_USE_ERROR == Str(TRUE)

\* `needle in haystack`, line 138: a str is no member of a bytes value (TypeError);
\* between values of one type it is the substring test
Contains(needle, haystack) ==
    IF needle.type # haystack.type THEN [exc |-> "TypeError", val |-> FALSE]
    ELSE [exc |-> "none", val |-> haystack.marker]

\* sock.bind(("", port)) succeeds: nobody listens on the port
Bindable(port) ==
    /\ port \notin os.taken
    /\ \A i \in Children : ~(os.children[i].port = port /\ os.children[i].st = "listening")

\* (mutant) only the first port of the range is probed
next_free_port_first_only(port, max_port) ==
    IF port <= max_port /\ Bindable(port) THEN [exc |-> "none", port |-> port]
    ELSE [exc |-> "IOError", port |-> None]

\* lines 41-50: the first port of [port, max_port] that binds, or IOError
RECURSIVE next_free_port(_, _)
next_free_port(port, max_port) ==
    IF ~(port <= max_port) THEN [exc |-> "IOError", port |-> None]
    ELSE IF Bindable(port) THEN [exc |-> "none", port |-> port]
    ELSE next_free_port(port + 1, max_port)

\* subprocess.Popen(...), lines 125-130: a new child told to listen on the port
Popen(port) == Append(os.children, [port |-> port, st |-> "starting", marker |-> FALSE])

\* the caller of run_server_instance: dequeue_instance once its call is bound, or a
\* task calling the function directly
Callable(t) ==
    IF phase = "harness" THEN task[t].pc = "idle" /\ nreq < MaxRequests
    ELSE task[t].pc = "call"

\* lines 111-137: the Stale return, or the lock, start_server() and the blocking
\* proc.stdout.read().  `async with` on a free asyncio.Lock does not suspend.
run_server_instance_call(t, should_start_server) ==
    /\ Callable(t) /\ busy = NoTask
    /\ avoid_same_free_port_lock = NoTask
    /\ nreq' = IF phase = "harness" THEN nreq + 1 ELSE nreq
    /\ LET r == [task[t] EXCEPT !.op = IF phase = "harness" THEN "launch" ELSE @]
           found == next_free_port(1, NumPorts)
           stale == StaleServerInstanceInfo(None, EmptyWSUrl, Undefined)
       IN  IF ~should_start_server
           THEN /\ last' = Finished(r, json_response(stale), PROCS, PROCS)
                /\ task' = [task EXCEPT ![t] = IdleTask]
                /\ hist' = [hist EXCEPT !.issued = Append(@, stale)]
                /\ UNCHANGED <<avoid_same_free_port_lock, busy, os>>
           ELSE IF found.exc # "none"
           THEN /\ last' = Finished(r, Raise(found.exc), PROCS, PROCS)
                /\ task' = [task EXCEPT ![t] = IdleTask]
                /\ UNCHANGED <<avoid_same_free_port_lock, busy, os, hist>>
           ELSE /\ avoid_same_free_port_lock' = t
                /\ os' = [os EXCEPT !.children = Popen(found.port)]
                /\ task' = [task EXCEPT ![t] =
                        [r EXCEPT !.pc = "read", !.port = found.port,
                                  !.proc = ChildPid(Len(os.children) + 1)]]
                /\ busy' = t
                /\ UNCHANGED <<last, hist>>
    /\ UNCHANGED <<phase, enabled, DEBUG, SERVER_INSTANCES, PROCS, RESULTS>>

\* lines 137-152: read() returns at the end of the child's output, then the test of
\* the while loop, and after the loop the registration and the return
run_server_instance_read(t) ==
    /\ busy = t /\ task[t].pc = "read"
    /\ Dead(task[t].proc)
    /\ LET proc_out == Bytes(os.children[ChildOf(task[t].proc)].marker)
           r == [task[t] EXCEPT
                    !.proc_out = proc_out,
                    \* the attempts whose output carried the marker
                    !.rejected = IF proc_out.marker
                                 THEN @ \cup {[port |-> task[t].port, pid |-> task[t].proc]}
                                 ELSE @]
           test == Contains(ADDRES_IN_USE_ERROR, proc_out)
           info == RunningServerInstanceInfo(r.port, get_socket_url(r.port), r.proc)
       IN  IF test.exc # "none"
           THEN /\ avoid_same_free_port_lock' = NoTask
                /\ busy' = NoTask
                /\ last' = Finished(r, Raise(test.exc), PROCS, PROCS)
                /\ task' = [task EXCEPT ![t] = IdleTask]
                /\ UNCHANGED <<PROCS, hist>>
           ELSE IF test.val
           THEN \* the loop body, lines 139-140, repeats without reading again
                /\ task' = [task EXCEPT ![t] = [r EXCEPT !.pc = "loop"]]
                /\ UNCHANGED <<avoid_same_free_port_lock, busy, last, PROCS, hist>>
           ELSE /\ avoid_same_free_port_lock' = NoTask
                /\ busy' = NoTask
                /\ PROCS' = Append(PROCS, r.proc)
                /\ last' = Finished(r, json_response(info), PROCS, PROCS')
                /\ task' = [task EXCEPT ![t] = IdleTask]
                /\ hist' = [hist EXCEPT !.issued = Append(@, info), !.leased = @ \cup {info}]
    /\ UNCHANGED <<phase, enabled, DEBUG, SERVER_INSTANCES, RESULTS, nreq, os>>

\* the worker: it binds its port, or finds it in use and prints the marker
child_starts(i) ==
    /\ i \in Children /\ os.children[i].st = "starting"
    /\ os' = [os EXCEPT !.children[i] =
                 IF Bindable(@.port) THEN [@ EXCEPT !.st = "listening"]
                 ELSE [@ EXCEPT !.st = "conflict", !.marker = TRUE]]
    /\ UNCHANGED <<phase, enabled, DEBUG, SERVER_INSTANCES, PROCS, RESULTS,
                   avoid_same_free_port_lock, task, busy, nreq, last, hist>>

\* the worker ends (after the marker, by a crash or by a signal): its output ends
child_exits(i) ==
    /\ i \in Children /\ os.children[i].st # "exited"
    /\ os' = [os EXCEPT !.children[i].st = "exited"]
    /\ UNCHANGED <<phase, enabled, DEBUG, SERVER_INSTANCES, PROCS, RESULTS,
                   avoid_same_free_port_lock, task, busy, nreq, last, hist>>

\* an exited worker is waited for and its pid is gone: the Popen object of lines
\* 125-130 is dropped when run_server_instance returns, and the subprocess module
\* waits for the children of dropped objects when the broker next runs
child_reaped(i) ==
    /\ i \in Children /\ os.children[i].st = "exited"
    /\ busy = NoTask
    /\ os' = [os EXCEPT !.children[i].st = "reaped"]
    /\ UNCHANGED <<phase, enabled, DEBUG, SERVER_INSTANCES, PROCS, RESULTS,
                   avoid_same_free_port_lock, task, busy, nreq, last, hist>>

\* another program on the host starts or stops listening on a port of the range
port_taken(p) ==
    /\ phase = "harness" /\ Bindable(p)
    /\ os' = [os EXCEPT !.taken = @ \cup {p}]
    /\ UNCHANGED <<phase, enabled, DEBUG, SERVER_INSTANCES, PROCS, RESULTS,
                   avoid_same_free_port_lock, task, busy, nreq, last, hist>>

port_released(p) ==
    /\ phase = "harness" /\ p \in os.taken
    /\ os' = [os EXCEPT !.taken = @ \ {p}]
    /\ UNCHANGED <<phase, enabled, DEBUG, SERVER_INSTANCES, PROCS, RESULTS,
                   avoid_same_free_port_lock, task, busy, nreq, last, hist>>

(* ------------------------ startup and shutdown ------------------------ *)
\* run_servers, lines 155-164: asyncio.gather is handed one generator object and is
\* never awaited, so no run() has run when servers_start_tasks is returned.  The
\* result is the list as it stands at the return: empty.  An interpreter whose
\* gather rejects a generator raises TypeError instead.
run_servers(size) == {[exc |-> "none", list |-> <<>>], [exc |-> "TypeError", list |-> <<>>]}

RECURSIVE PutAll(_, _)
PutAll(q, l) == IF l = <<>> THEN q ELSE PutAll(QueuePut(q, Head(l)), Tail(l))

\* main and the entry of server_manager, lines 209-231 and 193-201
main ==
    /\ phase = "init"
    /\ IF DEBUG /\ enabled
       THEN /\ phase' = "failed"
            /\ UNCHANGED SERVER_INSTANCES
       ELSE \E servers_info \in run_servers(PoolSize) :
                IF servers_info.exc # "none"
                THEN /\ phase' = "failed"
                     /\ UNCHANGED SERVER_INSTANCES
                ELSE /\ phase' = "serving"
                     /\ SERVER_INSTANCES' = PutAll(SERVER_INSTANCES, servers_info.list)
    /\ UNCHANGED <<enabled, DEBUG, PROCS, RESULTS, avoid_same_free_port_lock,
                   task, busy, nreq, last, os, hist>>

\* kill_process over list(PROCS), lines 203-204: the first os.kill that raises ends
\* the loop and the exception leaves the finally block before PROCS = []
RECURSIVE kill_all(_, _, _)
kill_all(todo, procs, signalled) ==
    IF todo = <<>> THEN [exc |-> "none", procs |-> <<>>, signalled |-> signalled]
    ELSE IF os_kill(Head(todo)) # "sent"
         THEN [exc |-> os_kill(Head(todo)), procs |-> procs, signalled |-> signalled]
         ELSE kill_all(Tail(todo), ListRemove(procs, Head(todo)), signalled \cup {Head(todo)})

\* the finally block of server_manager, lines 202-205, when run_app returns
shutdown ==
    /\ Serving
    /\ LET r == kill_all(PROCS, PROCS, {})
       IN  /\ PROCS' = r.procs
           /\ hist' = [hist EXCEPT !.signalled = @ \cup r.signalled]
    /\ phase' = "stopped"
    /\ UNCHANGED <<enabled, DEBUG, SERVER_INSTANCES, RESULTS, avoid_same_free_port_lock,
                   task, busy, nreq, last, os>>

(* ------------------------- specifications ----------------------------- *)
Init ==
    /\ phase = "init"
    /\ enabled \in BOOLEAN
    /\ DEBUG \in BOOLEAN
    /\ SERVER_INSTANCES = <<>>
    /\ PROCS = <<>>
    /\ RESULTS = <<>>
    /\ avoid_same_free_port_lock = NoTask
    /\ task = [t \in Tasks |-> IdleTask]
    /\ busy = NoTask
    /\ nreq = 0
    /\ last = NoLast
    /\ os = InitOs
    /\ hist = InitHist

Next ==
    \/ main
    \/ shutdown
    \/ \E t \in Tasks : dequeue_instance(t)
    \/ \E t \in Tasks, info \in ClientInfos : enqueue_instance_read(t, info)
    \/ \E t \in Tasks : enqueue_instance(t)
    \/ \E t \in Tasks : append_results_read(t, <<"a">>)
    \/ \E t \in Tasks : append_results(t)
    \/ \E t \in Tasks : send_and_clear_results(t)
    \/ \E p \in ForeignPids : process_exits(p)

Spec == Init /\ [][Next]_vars

\* the broker serving the results endpoints only
NextResults ==
    \/ main
    \/ \E t \in Tasks, data \in Payloads \cup {InvalidUtf8} : append_results_read(t, data)
    \/ \E t \in Tasks : append_results(t)
    \/ \E t \in Tasks : send_and_clear_results(t)

\* the results handlers read neither switch of the configuration
InitResults == Init /\ ~enabled /\ ~DEBUG

SpecResults == InitResults /\ [][NextResults]_vars

\* run_server_instance called directly
InitLaunch ==
    /\ phase = "harness"
    /\ enabled = TRUE
    /\ DEBUG = FALSE
    /\ SERVER_INSTANCES = <<>>
    /\ PROCS = <<>>
    /\ RESULTS = <<>>
    /\ avoid_same_free_port_lock = NoTask
    /\ task = [t \in Tasks |-> IdleTask]
    /\ busy = NoTask
    /\ nreq = 0
    /\ last = NoLast
    /\ os = InitOs
    /\ hist = InitHist

NextLaunch ==
    \/ \E t \in Tasks, should_start_server \in BOOLEAN :
           run_server_instance_call(t, should_start_server)
    \/ \E t \in Tasks : run_server_instance_read(t)
    \/ \E i \in 1..MaxRequests : child_starts(i)
    \/ \E i \in 1..MaxRequests : child_exits(i)
    \/ \E p \in Ports : port_taken(p)
    \/ \E p \in Ports : port_released(p)

SpecLaunch == InitLaunch /\ [][NextLaunch]_vars

\* the broker serving with PoolSize workers launched, registered and on loan
WorkerInfo(i) == RunningServerInstanceInfo(i, get_socket_url(i), ChildPid(i))

InitKill ==
    /\ phase = "serving"
    /\ enabled \in BOOLEAN
    /\ DEBUG = FALSE
    /\ SERVER_INSTANCES = <<>>
    /\ PROCS = [i \in 1..PoolSize |-> ChildPid(i)]
    /\ RESULTS = <<>>
    /\ avoid_same_free_port_lock = NoTask
    /\ task = [t \in Tasks |-> IdleTask]
    /\ busy = NoTask
    /\ nreq = 0
    /\ last = NoLast
    /\ os = [InitOs EXCEPT !.children =
                 [i \in 1..PoolSize |-> [port |-> i, st |-> "listening", marker |-> FALSE]]]
    /\ hist = [InitHist EXCEPT !.leased = {WorkerInfo(i) : i \in 1..PoolSize},
                               !.issued = [i \in 1..PoolSize |-> WorkerInfo(i)]]

NextKill ==
    \/ shutdown
    \/ \E t \in Tasks : dequeue_instance(t)
    \/ \E t \in Tasks, info \in hist.leased \cup {WorkerInfo(1)} : enqueue_instance_read(t, info)
    \/ \E t \in Tasks : enqueue_instance(t)
    \/ \E t \in Tasks : kill_server_poll(t)
    \/ \E i \in 1..PoolSize : child_exits(i)
    \/ \E i \in 1..PoolSize : child_reaped(i)

SpecKill == InitKill /\ [][NextKill]_vars

\* the same broker, serving the results endpoints as well
NextStall ==
    \/ NextKill
    \/ \E t \in Tasks : append_results_read(t, <<"a">>)
    \/ \E t \in Tasks : append_results(t)
    \/ \E t \in Tasks : send_and_clear_results(t)

SpecStall == InitKill /\ [][NextStall]_vars

(* ============================== claims ================================ *)
\* descriptors issued to clients and not yet returned
Outstanding == Cardinality(hist.leased)
Running(info) == info.pid # Undefined

\* C1: with recycling disabled the number of outstanding leases never exceeds the
\* pool size, and an AcquireLease on an empty pool fails with Empty: it returns no
\* descriptor and leaves the pool empty.
C1_PoolExhausted ==
    ~enabled =>
        /\ Outstanding <= PoolSize
        /\ (last.op = "get_ws" /\ last.seen = <<>>) =>
               /\ last.resp.kind = "Empty"
               /\ last.resp.info = NoInfo
               /\ last.left = <<>>

\* an AcquireLease found the pool empty and failed, after earlier requests
C1_Witness ==
    /\ ~enabled /\ nreq > 1
    /\ last.op = "get_ws" /\ last.seen = <<>> /\ last.resp.kind = "Empty"

C4_Drain ==
    last.op = "get_res" =>
        /\ last.left = <<>>
        /\ IF last.seen = <<>>
           THEN last.resp.kind = "RuntimeError"
           ELSE last.resp.kind = "ok" /\ json_loads(last.resp.text) = last.seen

\* a drain returned two payloads, one of which needs escaping
C4_Witness ==
    /\ last.op = "get_res" /\ last.resp.kind = "ok"
    /\ Len(last.seen) >= 2
    /\ last.seen[1] # last.seen[2]
    /\ \E i \in DOMAIN last.seen : last.seen[i] \in {<<QUOTE>>, <<BSLASH>>}

\* C5: under every interleaving of submit and drain requests, the payloads appended
\* so far are exactly the payloads the drains returned followed by the payloads still
\* in the buffer: none is returned twice, none is lost.
C5_ExactlyOnce == hist.appended = hist.delivered \o RESULTS

\* a drain returned payloads while another client's submit was suspended in
\* request.read()
C5_Witness ==
    /\ last.op = "get_res" /\ last.resp.kind = "ok" /\ hist.delivered # <<>>
    /\ \E t \in Tasks : task[t].op = "post_res" /\ task[t].pc = "read"

C8_StaleMode ==
    ~enabled =>
        /\ (phase = "serving" /\ nreq = 0) => Len(SERVER_INSTANCES) = PoolSize
        /\ last.op = "get_ws" =>
               IF last.seen = <<>> THEN last.resp.kind = "Empty"
               ELSE last.resp.kind = "ok" /\ last.resp.info.pid = Undefined

\* C9: the descriptors queued in the pool plus the descriptors on loan never exceed
\* the pool size, whatever the clients post.
C9_PoolBounded == Len(SERVER_INSTANCES) + Outstanding <= PoolSize

\* C10: every descriptor in the pool has pid Undefined, and the assertion of
\* dequeue_instance never fails.
C10_QueuedUnbound ==
    /\ \A i \in DOMAIN SERVER_INSTANCES : SERVER_INSTANCES[i].pid = Undefined
    /\ last.resp.kind # "AssertionError"

\* the workers whose launch has returned: no launch is still reading their output
Launched(i) == \A t \in Tasks : ~(task[t].pc \in {"read", "loop"} /\ task[t].proc = ChildPid(i))

AllAlive(polls) == \A i \in DOMAIN polls : ~polls[i]

\* C12: kill_server makes at most wait_for_reset_retries status tests.  While it
\* polls, every test so far observed the worker alive; it returns at the first test
\* that observes the worker dead or zombie; it raises RuntimeError exactly after
\* wait_for_reset_retries tests that all observed the worker alive.
C12_BoundedPolls ==
    /\ \A t \in Tasks : task[t].pc = "kill_poll" =>
           /\ Len(task[t].polls) + task[t].retries = wait_for_reset_retries
           /\ AllAlive(task[t].polls)
    /\ (last.op = "post_ws" /\ last.resp.kind = "RuntimeError") =>
           /\ Len(last.polls) = wait_for_reset_retries
           /\ AllAlive(last.polls)
    /\ (last.op = "post_ws" /\ enabled /\ last.resp.kind = "ok") =>
           /\ Len(last.polls) \in 1..wait_for_reset_retries
           /\ last.polls[Len(last.polls)]
           /\ AllAlive(SubSeq(last.polls, 1, Len(last.polls) - 1))

\* one terminate timed out after all its tests, with a worker that was still alive
C12_Witness ==
    /\ last.op = "post_ws" /\ last.resp.kind = "RuntimeError"
    /\ Len(last.polls) = wait_for_reset_retries
    /\ ~Dead(last.info.pid)

Stale == StaleServerInstanceInfo(None, EmptyWSUrl, Undefined)

\* C14 (as stated): with launch disabled, a POST post_ws of a Stale descriptor leaves
\* the pool as it was: the descriptor is discarded.
C14_StaleDiscarded ==
    (~enabled /\ last.op = "post_ws" /\ last.info = Stale) => last.left = last.seen

\* C14 (amended): with launch disabled, a POST post_ws of a Stale descriptor succeeds
\* and leaves the pool one longer, the Stale descriptor at its tail.
C14_StaleRequeued ==
    (~enabled /\ last.op = "post_ws" /\ last.info = Stale) =>
        /\ last.resp.kind = "ok"
        /\ Len(last.left) = Len(last.seen) + 1
        /\ last.left[Len(last.left)] = Stale
        /\ SubSeq(last.left, 1, Len(last.seen)) = last.seen

\* a Stale descriptor was returned to a pool that already held a descriptor
C14_Witness ==
    /\ ~enabled /\ last.op = "post_ws" /\ last.info = Stale
    /\ last.seen # <<>> /\ last.resp.kind = "ok"

\* C15: with recycling disabled, the step in which enqueue_instance handles the
\* descriptor it read answers HTTPOk, appends that descriptor unchanged to the tail
\* of the pool, sends no signal and leaves PROCS and RESULTS as they were.
C15_ReleaseUnchanged ==
    [][\A t \in Tasks :
           (~enabled /\ task[t].op = "post_ws" /\ task[t].pc = "read" /\ task'[t] # task[t]) =>
               /\ SERVER_INSTANCES' = Append(SERVER_INSTANCES, task[t].info)
               /\ last'.op = "post_ws" /\ last'.resp = HTTPOk
               /\ hist'.signalled = hist.signalled
               /\ PROCS' = PROCS
               /\ RESULTS' = RESULTS]_vars

\* a descriptor carrying a pid was returned to a pool that held another descriptor,
\* while a result was waiting in the buffer
C15_Witness ==
    /\ ~enabled /\ last.op = "post_ws" /\ last.resp.kind = "ok"
    /\ last.info.pid # Undefined
    /\ last.seen # <<>> /\ last.seen[1] # last.info
    /\ last.left = Append(last.seen, last.info)
    /\ RESULTS # <<>>

\* C16: with recycling enabled, the pool grows only in the step in which a polling
\* kill_server observes its worker dead, and then by the Unbound descriptor at the
\* port of that worker; while kill_server polls for a worker the pool holds no
\* descriptor at the worker's port; the step that raises the timeout leaves the pool
\* as it was.
C16_EnqueueAfterConfirm ==
    [][enabled =>
           /\ Len(SERVER_INSTANCES') > Len(SERVER_INSTANCES) =>
                  \E t \in Tasks :
                      /\ task[t].pc = "kill_poll" /\ task'[t].pc = "idle"
                      /\ os.children[ChildOf(task[t].info.pid)].st = "exited"
                      /\ SERVER_INSTANCES' =
                             Append(SERVER_INSTANCES,
                                    ServerInstanceInfo(task[t].info.port,
                                                       task[t].info.ws_url, Undefined))
           /\ \A t \in Tasks :
                  task'[t].pc = "kill_poll" =>
                      \A i \in DOMAIN SERVER_INSTANCES' :
                          SERVER_INSTANCES'[i].port # task'[t].info.port
           /\ (last' # last /\ last'.resp.kind = "RuntimeError") =>
                  SERVER_INSTANCES' = SERVER_INSTANCES]_vars

\* kill_server has polled once for a worker that is still alive while the pool holds
\* the descriptor of another slot
C16_Witness ==
    /\ enabled /\ SERVER_INSTANCES # <<>>
    /\ \E t \in Tasks :
           /\ task[t].pc = "kill_poll" /\ Len(task[t].polls) >= 1
           /\ ~Dead(task[t].info.pid)

Slots == Len(SERVER_INSTANCES) + Outstanding

\* C18: a step in which a handler ends with an exception leaves the number of
\* descriptors queued plus on loan as it was: no slot is lost by a failed request.
C18_NoSlotLost ==
    [][(last' # last /\ last'.resp.kind # "ok") => Slots' = Slots]_vars

\* a new request could be taken up: a task is idle and the request bound is not reached
CanAccept == nreq < MaxRequests /\ \E t \in Tasks : task[t].pc = "idle"

C20_SmallestFreePort ==
    [][/\ \A t \in Tasks :
              (task[t].pc = "idle" /\ task'[t].pc = "read" /\ task'[t].op = "launch") =>
                  /\ task'[t].port \in Ports
                  /\ Bindable(task'[t].port)
                  /\ \A q \in Ports : q < task'[t].port => ~Bindable(q)
       /\ (nreq' # nreq /\ task' = task /\ last'.resp.kind = "IOError") =>
              \A q \in Ports : ~Bindable(q)]_vars

\* a launch was given the last port of the range while the first port was occupied,
\* and an earlier launch had failed for want of a free port
C20_Witness ==
    /\ last.op = "launch" /\ last.resp.kind = "IOError"
    /\ \E t \in Tasks :
           /\ task[t].pc = "read" /\ task[t].port = NumPorts
           /\ ~Bindable(1)

\* C21: every step sends kill signals only to pids that are in PROCS when the step
\* begins, and the step in which enqueue_instance handles a descriptor whose pid is
\* not in PROCS, with recycling enabled, leaves PROCS and the pool as they were.
C21_SignalOnlyRegistered ==
    [][/\ \A pid \in hist'.signalled \ hist.signalled : InList(PROCS, pid)
       /\ \A t \in Tasks :
              (enabled /\ task[t].op = "post_ws" /\ task[t].pc = "read"
                   /\ task'[t] # task[t] /\ ~InList(PROCS, task[t].info.pid)) =>
                  PROCS' = PROCS /\ SERVER_INSTANCES' = SERVER_INSTANCES]_vars

====
